---- MODULE Spec2Model ----
(***************************************************************************)
(* A model of the Jack front end of n2t/compiler.py: JackTokenizer's       *)
(* character loop, the token cursor the parser drives, and the recursive   *)
(* descent of CompilationEngine, one action per loop iteration or          *)
(* straight-line step of a production, with the Python call stack as an    *)
(* explicit stack of frames.                                               *)
(*                                                                         *)
(* A character is a string of length one, a text a sequence of characters. *)
(* A Token is [content, type]; a Unit is [type, children]; the two are     *)
(* told apart by their type, as isinstance does in the source.             *)
(***************************************************************************)
EXTENDS Integers, Sequences, FiniteSets, TLC

VARIABLES
    text,             \* the source text handed to _jack_tokenizer
    pos,              \* index of the character the for loop reads next
    collector,        \* _jack_tokenizer's collector (a sequence of characters)
    overriding_with,  \* the open quote character, None outside a quoted section
    tokens,           \* the token list: the tokenizer's output, the parser's input
    cursor,           \* the cursor of the token stream
    stack,            \* the call stack of CompilationEngine's productions
    status,           \* where the run is: tokenizing, ready, running, returned, raised...
    error,            \* which exception ended the run ("" when none)
    result,           \* the Unit compile returned (NoUnit before)
    units,            \* how many Unit objects have been constructed
    ops,              \* the cursor calls made so far, in order
    relays            \* the Relay objects constructed so far (circuit/relay.py)

vars == <<text, pos, collector, overriding_with, tokens, cursor, stack,
          status, error, result, units, ops, relays>>

-----------------------------------------------------------------------------
(* Bounds of the checked inputs *)

MaxTextLen == 4
MaxDigits == 5
MaxShort == 5
MaxOps == 5

(* Program constants *)

MAX_INT == 32767
MIN_TOKENS == 5

-----------------------------------------------------------------------------
(* Tokens, and Python's None *)

None == ""

KEYWORD == "KEYWORD"
SYMBOL == "SYMBOL"
IDENTIFIER == "IDENTIFIER"
INT_CONST == "INT_CONST"
STRING_CONST == "STRING_CONST"

TokenType == {KEYWORD, SYMBOL, IDENTIFIER, INT_CONST, STRING_CONST}

Token(content, type) == [content |-> content, type |-> type]

symbols == {"{", "}", "(", ")", "[", "]", ".", ",", ";", "+", "-", "*", "/",
            "&", "|", "<", ">", "=", "~"}

keywords == {"class", "constructor", "function", "method", "field", "static",
             "var", "int", "char", "boolean", "void", "true", "false", "null",
             "this", "let", "do", "if", "else", "while", "return"}

empty_space == " "

splitter == symbols \cup {empty_space}

override == {"\"", "'"}

-----------------------------------------------------------------------------
(* str and int *)

RECURSIVE Join(_)
Join(cs) == IF cs = <<>> THEN "" ELSE Head(cs) \o Join(Tail(cs))

Digits == {"0", "1", "2", "3", "4", "5", "6", "7", "8", "9"}

DigitVal(c) ==
    CASE c = "0" -> 0 [] c = "1" -> 1 [] c = "2" -> 2 [] c = "3" -> 3
      [] c = "4" -> 4 [] c = "5" -> 5 [] c = "6" -> 6 [] c = "7" -> 7
      [] c = "8" -> 8 [] c = "9" -> 9

\* int(s) succeeds (no ValueError): digits, single underscores between digits.
\* A sign or blank cannot reach int() from the collector written over the
\* characters modelled here: + and - and the space are splitters.
IsPyInt(cs) ==
    /\ cs # <<>>
    /\ \A i \in 1..Len(cs) : cs[i] \in Digits \cup {"_"}
    /\ cs[1] \in Digits
    /\ cs[Len(cs)] \in Digits
    /\ \A i \in 1..(Len(cs) - 1) : ~(cs[i] = "_" /\ cs[i + 1] = "_")

RECURSIVE PyIntFrom(_, _)
PyIntFrom(cs, acc) ==
    IF cs = <<>> THEN acc
    ELSE IF Head(cs) = "_" THEN PyIntFrom(Tail(cs), acc)
    ELSE PyIntFrom(Tail(cs), 10 * acc + DigitVal(Head(cs)))

PyInt(cs) == PyIntFrom(cs, 0)

-----------------------------------------------------------------------------
(* JackTokenizer._jack_tokenizer *)

\* The locals of _jack_tokenizer; raised tells that an exception left it.
TokState(toks, coll, ovr, raised) ==
    [tokens |-> toks, collector |-> coll, overriding_with |-> ovr, raised |-> raised]

TokStart == TokState(<<>>, <<>>, None, FALSE)

IntInRange(integer) == ~(integer < 0 \/ integer > MAX_INT)

\* The type collector_finish evaluates when given none; "raise" for the
\* out-of-range exception, which the except ValueError clause does not catch.
EvaluatedType(coll) ==
    IF Join(coll) \in keywords THEN KEYWORD
    ELSE IF IsPyInt(coll)
         THEN IF IntInRange(PyInt(coll)) THEN INT_CONST ELSE "raise"
         ELSE IDENTIFIER

collector_finish(st, given_type) ==
    LET evaluated == IF given_type = None THEN EvaluatedType(st.collector) ELSE None
    IN  IF evaluated = "raise" THEN [st EXCEPT !.raised = TRUE]
        ELSE IF st.collector # <<>>
             THEN [st EXCEPT
                     !.tokens = Append(@, Token(Join(st.collector),
                                  IF given_type # None THEN given_type ELSE evaluated)),
                     !.collector = <<>>]
             ELSE st

\* One iteration of `for char in text`.
LoopBody(st, char) ==
    IF st.overriding_with # None
    THEN IF char = st.overriding_with
         THEN [collector_finish(st, STRING_CONST) EXCEPT !.overriding_with = None]
         ELSE [st EXCEPT !.collector = Append(@, char)]
    ELSE IF char \in override
    THEN [st EXCEPT !.overriding_with = char]
    ELSE IF char = "\n"
    THEN st
    ELSE IF char \in splitter
    THEN LET fin == collector_finish(st, None)
         IN  IF fin.raised THEN fin
             ELSE IF char # empty_space
                  THEN [fin EXCEPT !.tokens = Append(@, Token(char, SYMBOL))]
                  ELSE fin
    ELSE [st EXCEPT !.collector = Append(@, char)]

\* The whole call: the token list it returns, or the state it raised in.
RECURSIVE RunTokenizer(_, _)
RunTokenizer(st, cs) ==
    IF cs = <<>> \/ st.raised THEN st
    ELSE RunTokenizer(LoopBody(st, Head(cs)), Tail(cs))

JackTokenize(src) == RunTokenizer(TokStart, src)

-----------------------------------------------------------------------------
(* Source texts *)

\* let x = 1;
Src_LetStatement ==
    <<"l", "e", "t", " ", "x", " ", "=", " ", "1", ";">>

\* let x = 1
Src_LetNoSemicolon ==
    <<"l", "e", "t", " ", "x", " ", "=", " ", "1">>

\* 32767
Src_MaxInt ==
    <<"3", "2", "7", "6", "7">>

\* 32768
Src_OverMaxInt ==
    <<"3", "2", "7", "6", "8">>

\* 'it''s a "test"'
Src_Quoted ==
    <<"'", "i", "t", "'", "'", "s", " ", "a", " ", "\"", "t", "e", "s", "t",
      "\"", "'">>

\* x"a b";
Src_QuoteAfterName ==
    <<"x", "\"", "a", " ", "b", "\"", ";">>

\* class Foo { }
Src_EmptyClass ==
    <<"c", "l", "a", "s", "s", " ", "F", "o", "o", " ", "{", " ", "}">>

\* class Foo { function void bar() { return; } }
Src_ReturnClass ==
    <<"c", "l", "a", "s", "s", " ", "F", "o", "o", " ", "{", " ", "f", "u",
      "n", "c", "t", "i", "o", "n", " ", "v", "o", "i", "d", " ", "b", "a",
      "r", "(", ")", " ", "{", " ", "r", "e", "t", "u", "r", "n", ";", " ",
      "}", " ", "}">>

\* not a class
Src_NotAClass ==
    <<"n", "o", "t", " ", "a", " ", "c", "l", "a", "s", "s">>

\* class Foo "{" x }
Src_StringBrace ==
    <<"c", "l", "a", "s", "s", " ", "F", "o", "o", " ", "\"", "{", "\"", " ",
      "x", " ", "}">>

\* `let`, a newline, `x;`
Src_LetNewline ==
    <<"l", "e", "t", "\n", "x", ";">>

SampleTexts ==
    {Src_LetStatement, Src_LetNoSemicolon, Src_MaxInt, Src_OverMaxInt,
     Src_Quoted, Src_QuoteAfterName, Src_EmptyClass, Src_ReturnClass,
     Src_NotAClass, Src_StringBrace, Src_LetNewline}

SeqsUpTo(S, n) == UNION {[1..k -> S] : k \in 0..n}

\* Every text of up to MaxTextLen characters over: letters making the keyword
\* `do` and identifiers, a digit, a symbol, the space, the newline, both quotes.
SmallChars == {"d", "o", "1", ";", " ", "\n", "\"", "'"}

SmallTexts == SeqsUpTo(SmallChars, MaxTextLen)

\* Integer literals around the 32767 limit, alone or followed by a splitter.
LimitDigits == {"2", "3", "6", "7", "8"}

IntTexts ==
    {d \o s : d \in SeqsUpTo(LimitDigits, MaxDigits), s \in {<<>>, <<";">>, <<" ">>}}

TokenizerInputs == SmallTexts \cup IntTexts \cup SampleTexts

-----------------------------------------------------------------------------
(* Values of the variables a phase does not use *)

NoUnit == [type |-> "None", children |-> <<>>]

ParserIdle ==
    /\ cursor = 0 /\ stack = <<>> /\ result = NoUnit /\ units = 0 /\ ops = <<>>

TokenizerIdle ==
    /\ text = <<>> /\ pos = 1 /\ collector = <<>> /\ overriding_with = None

-----------------------------------------------------------------------------
(* The tokenizer as a state machine: one action per branch of the loop body *)

InitTok ==
    /\ relays = <<>>
    /\ text \in TokenizerInputs
    /\ pos = 1
    /\ collector = <<>>
    /\ overriding_with = None
    /\ tokens = <<>>
    /\ status = "tokenizing"
    /\ error = ""
    /\ ParserIdle

InLoop == status = "tokenizing" /\ pos <= Len(text)

\* The loop body applied to the locals and the character at pos.
Iterate ==
    LET nxt == LoopBody(TokState(tokens, collector, overriding_with, FALSE), text[pos])
    IN  /\ tokens' = nxt.tokens
        /\ collector' = nxt.collector
        /\ overriding_with' = nxt.overriding_with
        /\ pos' = pos + 1
        /\ status' = IF nxt.raised THEN "raised" ELSE status
        /\ error' = IF nxt.raised THEN "IntOutOfRange" ELSE error
        /\ UNCHANGED <<relays, text, cursor, stack, result, units, ops>>

\* lines 100-103: the quote that opened the section closes it
TokQuoteClose ==
    /\ InLoop /\ overriding_with # None /\ text[pos] = overriding_with
    /\ Iterate

\* lines 104-105: any other character inside a quoted section
TokQuoteKeep ==
    /\ InLoop /\ overriding_with # None /\ text[pos] # overriding_with
    /\ Iterate

\* lines 107-109: a quote outside a quoted section
TokQuoteOpen ==
    /\ InLoop /\ overriding_with = None /\ text[pos] \in override
    /\ Iterate

\* lines 112-113
TokNewline ==
    /\ InLoop /\ overriding_with = None /\ text[pos] = "\n"
    /\ Iterate

\* lines 114-117
TokSplitter ==
    /\ InLoop /\ overriding_with = None /\ text[pos] \in splitter
    /\ Iterate

\* lines 118-119
TokCollect ==
    /\ InLoop /\ overriding_with = None
    /\ text[pos] \notin override \cup splitter \cup {"\n"}
    /\ Iterate

\* line 120: the loop is over, the token list is returned as it stands
TokReturn ==
    /\ status = "tokenizing" /\ pos > Len(text)
    /\ status' = "tokenized"
    /\ UNCHANGED <<relays, text, pos, collector, overriding_with, tokens, cursor, stack,
                   error, result, units, ops>>

NextTok ==
    \/ TokQuoteClose \/ TokQuoteKeep \/ TokQuoteOpen
    \/ TokNewline \/ TokSplitter \/ TokCollect \/ TokReturn

SpecTok == InitTok /\ [][NextTok]_vars

-----------------------------------------------------------------------------
(* The token stream and its cursor (BaseParser: reset, advance, retreat,    *)
(* has_more, get_all), and the record of the cursor calls made.             *)

NoToken == Token("", "None")

has_more == cursor < Len(tokens)

\* where advance() and retreat() leave a cursor that was at `at`
advance_to(at) == at + 1

\* (variant: retreat() that leaves the cursor where it is)
retreat_to_nowhere(at) == at

retreat_to(at) == at - 1

\* advance() called at position `at`: returns tokens[at + 1], moves to at + 1.
AdvanceOp(at) == [op |-> "advance", at |-> at, tok |-> tokens[at + 1]]

\* advance() called at the end of the stream: nothing to return.
FailedAdvanceOp(at) == [op |-> "advance", at |-> at, tok |-> NoToken]

\* retreat() called at position `at`: moves back by one.
RetreatOp(at) == [op |-> "retreat", at |-> at, tok |-> NoToken]

\* ops after k advance() calls from the current position
Adv(k) == ops \o [i \in 1..k |-> AdvanceOp(cursor + i - 1)]

\* ops after one advance() and the retreat() that puts the token back
AdvRet == Adv(1) \o <<RetreatOp(cursor + 1)>>

\* the i-th token ahead of the cursor
Tok(i) == tokens[cursor + i]

\* the cursor after one advance() and the retreat() that puts the token back
PutBack == retreat_to(advance_to(cursor))

Avail == Len(tokens) - cursor

-----------------------------------------------------------------------------
(* Units and the call stack of the productions *)

Class == "Class"
ClassVariableDeclaration == "ClassVariableDeclaration"
SubroutineDeclaration == "SubroutineDeclaration"
SubroutineBody == "SubroutineBody"
VariableDeclaration == "VariableDeclaration"
ParameterList == "ParameterList"
Statements == "Statements"
LetStatement == "LetStatement"
DoStatement == "DoStatement"
IfStatement == "IfStatement"
WhileStatement == "WhileStatement"
ReturnStatement == "ReturnStatement"
Expression == "Expression"
Term == "Term"
ExpressionList == "ExpressionList"

WrapperType ==
    {SubroutineDeclaration, SubroutineBody, VariableDeclaration, Statements,
     LetStatement, DoStatement, ClassVariableDeclaration, ReturnStatement,
     ParameterList, IfStatement, Expression, Class, Term, ExpressionList,
     WhileStatement}

Unit(type, children) == [type |-> type, children |-> children]

IsUnit(x) == x.type \in WrapperType
IsToken(x) == x.type \in TokenType

\* One activation of a production: where it is, the children gathered so
\* far, and the locals some productions keep (thing, end_symbols, the
\* parameter tokens).
Frame(proc, pc, children) ==
    [proc |-> proc, pc |-> pc, children |-> children,
     thing |-> FALSE, ends |-> {}, params |-> <<>>]

Top == stack[Len(stack)]

At(proc, pc) ==
    /\ status = "running" /\ stack # <<>>
    /\ Top.proc = proc /\ Top.pc = pc

WithTop(f) == [stack EXCEPT ![Len(stack)] = f]

\* the caller's frame is left as f and the callee starts as g
Call(f, g) == Append(WithTop(f), g)

\* `children.append(<callee>)`: the callee returns x to its caller
ReturnValue(x) ==
    LET n == Len(stack)
    IN  [SubSeq(stack, 1, n - 1) EXCEPT ![n - 1].children = Append(@, x)]

\* `children.extend(<callee>)`: the callee returns the list xs to its caller
ReturnList(xs) ==
    LET n == Len(stack)
    IN  [SubSeq(stack, 1, n - 1) EXCEPT ![n - 1].children = @ \o xs]

TokenizerVars == <<text, pos, collector, overriding_with, tokens>>

\* a step of the parser that goes on
Move(c, o, stk, u) ==
    /\ cursor' = c /\ ops' = o /\ stack' = stk /\ units' = u
    /\ UNCHANGED <<relays, TokenizerVars, status, error, result>>

\* a step of the parser that raises
Raise(c, o, err) ==
    /\ cursor' = c /\ ops' = o /\ status' = "raised" /\ error' = err
    /\ UNCHANGED <<relays, TokenizerVars, stack, result, units>>

-----------------------------------------------------------------------------
(* CompilationEngine: the constructor and the class level *)

\* line 206: the second test binds as (not type == KEYWORD) and content == "class"
RejectedAsNoClass(toks) ==
    \/ Len(toks) < MIN_TOKENS
    \/ (~(toks[1].type = KEYWORD) /\ toks[1].content = "class")

\* __init__, lines 198-209: reset the cursor, look at the whole stream
Construct ==
    /\ status = "new"
    /\ cursor' = 0
    /\ IF Len(tokens) = 0
       THEN status' = "raised" /\ error' = "NoTokens"
       ELSE IF RejectedAsNoClass(tokens)
            THEN status' = "raised" /\ error' = "NotWrappedInClass"
            ELSE status' = "ready" /\ error' = error
    /\ UNCHANGED <<relays, TokenizerVars, stack, result, units, ops>>

\* line 216
ClassHeaderFormed(first, second, third) ==
    ~(~(first.content = "class") \/ ~(second.type = IDENTIFIER)
      \/ ~(third.content = "{"))

\* compile, lines 213-219: the three header tokens
compile_header ==
    /\ status = "ready"
    /\ Avail >= 3
    /\ cursor' = cursor + 3
    /\ ops' = Adv(3)
    /\ IF ClassHeaderFormed(Tok(1), Tok(2), Tok(3))
       THEN /\ status' = "running"
            /\ error' = error
            /\ stack' = <<Frame("compile", "loop", <<Tok(1), Tok(2), Tok(3)>>)>>
       ELSE /\ status' = "raised"
            /\ error' = "ClassNotFormed"
            /\ stack' = stack
    /\ UNCHANGED <<relays, TokenizerVars, result, units>>

\* (variant: the has_more() test of line 229 left out)
TrailingTokens_unchecked(c) == FALSE

\* lines 228-229: the class-level `}` with tokens after it
TrailingTokens(c) == c < Len(tokens)

\* compile, lines 222-232: one iteration of the class-level loop
compile_loop ==
    /\ At("compile", "loop")
    /\ has_more
    /\ LET next_token == Tok(1) IN
       IF next_token.content \in {"static", "field"}
       THEN Move(cursor + 1, Adv(1),
                 Call(Top, Frame("class_var_declaration", "loop", <<next_token>>)),
                 units)
       ELSE IF next_token.content \in {"function", "method", "constructor"}
       THEN Move(cursor + 1, Adv(1),
                 Call(Top, Frame("subroutine_declaration", "head", <<next_token>>)),
                 units)
       ELSE IF next_token.content = "}"
       THEN IF TrailingTokens(cursor + 1)
            THEN Raise(cursor + 2, Adv(2), "TrailingToken")
            ELSE Move(cursor + 1, Adv(1),
                      WithTop([Top EXCEPT !.children = Append(@, next_token)]),
                      units)
       ELSE Move(cursor + 1, Adv(1), stack, units)

\* compile, line 234: the loop ended, the Class unit is returned
compile_return ==
    /\ At("compile", "loop")
    /\ ~has_more
    /\ status' = "returned"
    /\ result' = Unit(Class, Top.children)
    /\ units' = units + 1
    /\ stack' = <<>>
    /\ UNCHANGED <<relays, TokenizerVars, cursor, error, ops>>

\* _compile_class_var_declaration, lines 241-249
compile_class_var_declaration ==
    /\ At("class_var_declaration", "loop")
    /\ has_more
    /\ LET next_token == Tok(1)
           children == Append(Top.children, next_token)
       IN  IF next_token.content = ";"
           THEN Move(cursor + 1, Adv(1),
                     ReturnValue(Unit(ClassVariableDeclaration, children)), units + 1)
           ELSE Move(cursor + 1, Adv(1), WithTop([Top EXCEPT !.children = children]),
                     units)

-----------------------------------------------------------------------------
(* Subroutines *)

\* _compile_subroutine_declaration, lines 255-258
subroutine_declaration_head ==
    /\ At("subroutine_declaration", "head")
    /\ Avail >= 3
    /\ Move(cursor + 3, Adv(3),
            WithTop([Top EXCEPT !.children = @ \o <<Tok(1), Tok(2), Tok(3)>>,
                                !.pc = "params"]),
            units)

\* _compile_subroutine_declaration, lines 260-267, with _compile_parameter_list
subroutine_declaration_params ==
    /\ At("subroutine_declaration", "params")
    /\ has_more
    /\ LET next_token == Tok(1) IN
       IF next_token.content = ")"
       THEN Move(cursor + 1, Adv(1),
                 WithTop([Top EXCEPT
                            !.children = @ \o <<Unit(ParameterList, Top.params),
                                                next_token>>,
                            !.pc = "body"]),
                 units + 1)
       ELSE Move(cursor + 1, Adv(1),
                 WithTop([Top EXCEPT !.params = Append(@, next_token)]), units)

\* line 270: the body is called with the next token, whatever it is
subroutine_declaration_body ==
    /\ At("subroutine_declaration", "body")
    /\ has_more
    /\ Move(cursor + 1, Adv(1),
            Call([Top EXCEPT !.pc = "return"],
                 Frame("subroutine_body", "loop", <<Tok(1)>>)),
            units)

\* line 271
subroutine_declaration_return ==
    /\ At("subroutine_declaration", "return")
    /\ Move(cursor, ops, ReturnValue(Unit(SubroutineDeclaration, Top.children)),
            units + 1)

\* (variant: line 283 left out, the first token of the statements is not put back)
compile_subroutine_body_without_retreat ==
    /\ At("subroutine_body", "loop")
    /\ has_more
    /\ LET next_token == Tok(1) IN
       IF next_token.content = "var"
       THEN Move(cursor + 1, Adv(1),
                 Call(Top, Frame("variable_declaration", "loop", <<next_token>>)),
                 units)
       ELSE Move(cursor + 1, Adv(1),
                 Call([Top EXCEPT !.pc = "return"],
                      Frame("children_in_body", "loop", <<>>)),
                 units)

\* _compile_subroutine_body, lines 278-285
compile_subroutine_body ==
    /\ At("subroutine_body", "loop")
    /\ has_more
    /\ LET next_token == Tok(1) IN
       IF next_token.content = "var"
       THEN Move(cursor + 1, Adv(1),
                 Call(Top, Frame("variable_declaration", "loop", <<next_token>>)),
                 units)
       ELSE Move(PutBack, AdvRet,
                 Call([Top EXCEPT !.pc = "return"],
                      Frame("children_in_body", "loop", <<>>)),
                 units)

\* line 287
subroutine_body_return ==
    /\ At("subroutine_body", "return")
    /\ Move(cursor, ops, ReturnValue(Unit(SubroutineBody, Top.children)), units + 1)

\* _compile_variable_declaration, lines 442-447
compile_variable_declaration ==
    /\ At("variable_declaration", "loop")
    /\ has_more
    /\ LET next_token == Tok(1)
           children == Append(Top.children, next_token)
       IN  IF next_token.content = ";"
           THEN Move(cursor + 1, Adv(1),
                     ReturnValue(Unit(VariableDeclaration, children)), units + 1)
           ELSE Move(cursor + 1, Adv(1), WithTop([Top EXCEPT !.children = children]),
                     units)

\* line 295: the brace closes the body only once the statements were read
ClosesBody(next_token, thing) == next_token.content = "}" /\ thing

\* (variant: line 301 left out, thing stays False)
ThingNeverSet == FALSE

\* line 301
ThingAfterStatements == TRUE

\* (variant: the loop puts a token back before it has read one, as if a
\* first token had been handed in)
get_children_in_body_without_advance ==
    /\ At("children_in_body", "loop")
    /\ has_more
    /\ cursor > 0
    /\ LET next_token == Tok(1) IN
       IF ClosesBody(next_token, Top.thing)
       THEN Move(cursor + 1, Adv(1),
                 ReturnList(Append(Top.children, next_token)), units)
       ELSE Move(retreat_to(cursor), Append(ops, RetreatOp(cursor)),
                 Call([Top EXCEPT !.thing = ThingAfterStatements],
                      Frame("statements", "loop", <<>>)),
                 units)

\* _get_children_in_body_with_closing_brace, lines 293-302 (always called
\* without a first token)
get_children_in_body_with_closing_brace ==
    /\ At("children_in_body", "loop")
    /\ has_more
    /\ LET next_token == Tok(1) IN
       IF ClosesBody(next_token, Top.thing)
       THEN Move(cursor + 1, Adv(1),
                 ReturnList(Append(Top.children, next_token)), units)
       ELSE Move(PutBack, AdvRet,
                 Call([Top EXCEPT !.thing = ThingAfterStatements],
                      Frame("statements", "loop", <<>>)),
                 units)

-----------------------------------------------------------------------------
(* Statements *)

\* _compile_statements, lines 306-324: one iteration
compile_statements ==
    /\ At("statements", "loop")
    /\ has_more
    /\ LET next_token == Tok(1) IN
       IF next_token.content = "return"
       THEN Move(cursor + 1, Adv(1),
                 Call(Top, Frame("return_statement", "loop", <<next_token>>)), units)
       ELSE IF next_token.content = "let"
       THEN Move(cursor + 1, Adv(1),
                 Call(Top, Frame("let_statement", "head", <<next_token>>)), units)
       ELSE IF next_token.content = "do"
       THEN Move(cursor + 1, Adv(1),
                 Call(Top, Frame("do_statement", "head", <<next_token>>)), units)
       ELSE IF next_token.content = "if"
       THEN Move(cursor + 1, Adv(1),
                 Call(Top, Frame("if_statement", "open", <<next_token>>)), units)
       ELSE IF next_token.content = "while"
       THEN Move(cursor + 1, Adv(1),
                 Call(Top, Frame("while_statement", "open", <<next_token>>)), units)
       ELSE IF next_token.content = "}"
       THEN Move(PutBack, AdvRet, ReturnValue(Unit(Statements, Top.children)),
                 units + 1)
       ELSE Raise(cursor + 1, Adv(1), "NotImplemented")

\* _compile_term, line 403, as _compile_expression uses it (lines 392, 399)
TermOrSymbol(token) ==
    IF token.type = SYMBOL THEN token ELSE Unit(Term, <<token>>)

TermUnits(token) == IF token.type = SYMBOL THEN 0 ELSE 1

\* the frame _compile_expression(first_token, end_symbols) starts in, line 392
ExpressionFrame(first_token, end_symbols) ==
    [Frame("expression", "loop", <<TermOrSymbol(first_token)>>)
        EXCEPT !.ends = end_symbols]

\* _compile_expression, lines 393-400: one iteration
compile_expression ==
    /\ At("expression", "loop")
    /\ has_more
    /\ LET next_token == Tok(1) IN
       IF next_token.content \in Top.ends
       THEN Move(PutBack, AdvRet, ReturnValue(Unit(Expression, Top.children)),
                 units + 1)
       ELSE Move(cursor + 1, Adv(1),
                 WithTop([Top EXCEPT !.children = Append(@, TermOrSymbol(next_token))]),
                 units + TermUnits(next_token))

\* `while (` and `if (`, lines 330 and 352: the second child is whatever comes
condition_open(proc) ==
    /\ At(proc, "open")
    /\ has_more
    /\ Move(cursor + 1, Adv(1),
            WithTop([Top EXCEPT !.children = Append(@, Tok(1)), !.pc = "condition"]),
            units)

\* lines 332-338 and 354-360: up to the `)`
condition_loop(proc) ==
    /\ At(proc, "condition")
    /\ has_more
    /\ LET next_token == Tok(1) IN
       IF next_token.content = ")"
       THEN Move(cursor + 1, Adv(1),
                 WithTop([Top EXCEPT !.children = Append(@, next_token),
                                     !.pc = "blocks"]),
                 units)
       ELSE Move(cursor + 1, Adv(1),
                 Call(Top, ExpressionFrame(next_token, {")"})),
                 units + TermUnits(next_token))

while_open == condition_open("while_statement")

while_condition == condition_loop("while_statement")

\* _compile_while_statement, lines 340-348: one iteration of the second loop
while_blocks ==
    /\ At("while_statement", "blocks")
    /\ has_more
    /\ LET next_token == Tok(1) IN
       IF next_token.content = "{"
       THEN Move(cursor + 1, Adv(1),
                 Call([Top EXCEPT !.children = Append(@, next_token)],
                      Frame("children_in_body", "loop", <<>>)),
                 units)
       ELSE Move(PutBack, AdvRet, ReturnValue(Unit(WhileStatement, Top.children)),
                 units + 1)

if_open == condition_open("if_statement")

if_condition == condition_loop("if_statement")

\* _compile_if_statement, lines 362-372: one iteration of the second loop
if_blocks ==
    /\ At("if_statement", "blocks")
    /\ has_more
    /\ LET next_token == Tok(1) IN
       IF next_token.content = "{"
       THEN Move(cursor + 1, Adv(1),
                 Call([Top EXCEPT !.children = Append(@, next_token)],
                      Frame("children_in_body", "loop", <<>>)),
                 units)
       ELSE IF next_token.content = "else"
       THEN Move(cursor + 1, Adv(1),
                 WithTop([Top EXCEPT !.children = Append(@, next_token)]), units)
       ELSE Move(PutBack, AdvRet, ReturnValue(Unit(IfStatement, Top.children)),
                 units + 1)

\* _compile_let_statement, lines 378-380
let_head ==
    /\ At("let_statement", "head")
    /\ Avail >= 2
    /\ Move(cursor + 2, Adv(2),
            WithTop([Top EXCEPT !.children = @ \o <<Tok(1), Tok(2)>>,
                                !.pc = "loop"]),
            units)

\* lines 381-389 of the let statement and 428-436 of the return statement:
\* expressions up to the `;`
until_semicolon(proc, type) ==
    /\ At(proc, "loop")
    /\ has_more
    /\ LET next_token == Tok(1) IN
       IF next_token.content = ";"
       THEN Move(cursor + 1, Adv(1),
                 ReturnValue(Unit(type, Append(Top.children, next_token))),
                 units + 1)
       ELSE Move(cursor + 1, Adv(1),
                 Call(Top, ExpressionFrame(next_token, {";"})),
                 units + TermUnits(next_token))

let_loop == until_semicolon("let_statement", LetStatement)

compile_return_statement == until_semicolon("return_statement", ReturnStatement)

\* _compile_do_statement, lines 407-410 and 416 when no `.` follows
do_head ==
    /\ At("do_statement", "head")
    /\ Avail >= 2
    /\ LET third == Tok(2)
           children == Top.children \o <<Tok(1), third>>
       IN  IF third.content = "."
           THEN Move(cursor + 2, Adv(2),
                     WithTop([Top EXCEPT !.children = children, !.pc = "dot"]), units)
           ELSE Move(cursor + 2, Adv(2),
                     Call([Top EXCEPT !.children = children, !.pc = "close"],
                          Frame("expression_list", "loop", <<>>)),
                     units)

\* lines 411-413 and 416
do_dot ==
    /\ At("do_statement", "dot")
    /\ Avail >= 2
    /\ Move(cursor + 2, Adv(2),
            Call([Top EXCEPT !.children = @ \o <<Tok(1), Tok(2)>>, !.pc = "close"],
                 Frame("expression_list", "loop", <<>>)),
            units)

\* lines 417-422: the `)` is taken unchecked, the `;` is asserted
do_close ==
    /\ At("do_statement", "close")
    /\ Avail >= 2
    /\ LET last_token == Tok(2) IN
       IF last_token.content = ";"
       THEN Move(cursor + 2, Adv(2),
                 ReturnValue(Unit(DoStatement, Top.children \o <<Tok(1), last_token>>)),
                 units + 1)
       ELSE Raise(cursor + 2, Adv(2), "AssertionError")

\* _compile_expression_list, lines 465-479: one iteration
compile_expression_list ==
    /\ At("expression_list", "loop")
    /\ has_more
    /\ LET next_token == Tok(1) IN
       IF next_token.content = ")"
       THEN Move(PutBack, AdvRet, ReturnValue(Unit(ExpressionList, Top.children)),
                 units + 1)
       ELSE IF next_token.content = ","
       THEN Move(cursor + 1, Adv(1),
                 WithTop([Top EXCEPT !.children = Append(@, next_token)]), units)
       ELSE Move(cursor + 1, Adv(1),
                 Call(Top, ExpressionFrame(next_token, {")", ","})),
                 units + TermUnits(next_token))

-----------------------------------------------------------------------------
(* advance() with no token left *)

\* How many advance() calls the next step of a production makes before it
\* looks at anything else.
Need(f) ==
    CASE f.proc = "compile" -> 0
      [] f.pc = "return" -> 0
      [] f.proc = "subroutine_declaration" /\ f.pc = "head" -> 3
      [] f.proc = "let_statement" /\ f.pc = "head" -> 2
      [] f.proc = "do_statement" -> 2
      [] OTHER -> 1

\* The step of the running production calls advance() once more than there
\* are tokens: the calls that can be served are, the next one raises.
advance_past_end ==
    /\ status = "running" /\ stack # <<>>
    /\ Need(Top) > Avail
    /\ Raise(Len(tokens), Append(Adv(Avail), FailedAdvanceOp(Len(tokens))),
             "IndexError")

-----------------------------------------------------------------------------
(* Token streams the parser is run on *)

K(content) == Token(content, KEYWORD)
S(content) == Token(content, SYMBOL)
I(content) == Token(content, IDENTIFIER)
N(content) == Token(content, INT_CONST)
Str(content) == Token(content, STRING_CONST)

\* class Foo { }
EmptyClassTokens == JackTokenize(Src_EmptyClass).tokens

\* class Foo { function void bar() { return; } }
ReturnClassTokens == JackTokenize(Src_ReturnClass).tokens

\* class Foo {
\*   static int x;
\*   function void bar(int a) {
\*     var int y;
\*     let y = a + 1;
\*     do f(y, 2);
\*     do g.h();
\*     if (y) { return y; } else { let y = 'str'; }
\*     while (y < 3) { do f(); }
\*     return;
\*   }
\* }
FullClassTokens ==
    <<K("class"), I("Foo"), S("{"),
      K("static"), K("int"), I("x"), S(";"),
      K("function"), K("void"), I("bar"), S("("), K("int"), I("a"), S(")"), S("{"),
      K("var"), K("int"), I("y"), S(";"),
      K("let"), I("y"), S("="), I("a"), S("+"), N("1"), S(";"),
      K("do"), I("f"), S("("), I("y"), S(","), N("2"), S(")"), S(";"),
      K("do"), I("g"), S("."), I("h"), S("("), S(")"), S(";"),
      K("if"), S("("), I("y"), S(")"), S("{"), K("return"), I("y"), S(";"), S("}"),
      K("else"), S("{"), K("let"), I("y"), S("="), Str("str"), S(";"), S("}"),
      K("while"), S("("), I("y"), S("<"), N("3"), S(")"), S("{"),
      K("do"), I("f"), S("("), S(")"), S(";"), S("}"),
      K("return"), S(";"),
      S("}"),
      S("}")>>

Programs == {ReturnClassTokens, FullClassTokens}

\* The tokens an edit puts into a program: the keywords and symbols the
\* productions branch on, an identifier, an integer, and string constants
\* whose content reads like a keyword or a delimiter.
EditTokens ==
    {K("class"), K("static"), K("function"), K("var"), K("let"), K("do"),
     K("if"), K("else"), K("while"), K("return"),
     S("{"), S("}"), S("("), S(")"), S(";"), S(","), S("."), S("="),
     I("Foo"), N("1"), Str("{"), Str("}"), Str(";"), Str(")"), Str("return")}

Prefixes(p) == {SubSeq(p, 1, n) : n \in 0..Len(p)}

Deletions(p) == {SubSeq(p, 1, i - 1) \o SubSeq(p, i + 1, Len(p)) : i \in 1..Len(p)}

Substitutions(p) == {[p EXCEPT ![i] = t] : i \in 1..Len(p), t \in EditTokens}

Insertions(p) ==
    {SubSeq(p, 1, i) \o <<t>> \o SubSeq(p, i + 1, Len(p)) :
        i \in 0..Len(p), t \in EditTokens}

\* every program, cut short anywhere, or with one token dropped, replaced or added
EditedPrograms ==
    UNION {Prefixes(p) \cup Deletions(p) \cup Substitutions(p) \cup Insertions(p) :
           p \in Programs}

\* every stream of up to MaxShort tokens over the tokens of a class header,
\* as keyword or symbol and as string constant of the same content
ShortTokens == {K("class"), Str("class"), I("Foo"), S("{"), S("}")}

ShortStreams == SeqsUpTo(ShortTokens, MaxShort)

\* what the tokenizer makes of the source texts
TokenizedSources ==
    {JackTokenize(src).tokens :
        src \in {<<>>, Src_EmptyClass, Src_ReturnClass, Src_NotAClass, Src_StringBrace}}

ParserStreams ==
    EditedPrograms \cup ShortStreams \cup TokenizedSources
        \cup {<<I("not"), I("a"), K("class")>>}

-----------------------------------------------------------------------------
(* The parser as a state machine *)

\* A tokenizer holding the stream, its cursor wherever an earlier use left it.
InitParse ==
    /\ relays = <<>>
    /\ tokens \in ParserStreams
    /\ cursor \in {0, Len(tokens)}
    /\ TokenizerIdle
    /\ status = "new"
    /\ error = ""
    /\ stack = <<>>
    /\ result = NoUnit
    /\ units = 0
    /\ ops = <<>>

NextParse ==
    \/ Construct
    \/ compile_header
    \/ compile_loop
    \/ compile_return
    \/ compile_class_var_declaration
    \/ subroutine_declaration_head
    \/ subroutine_declaration_params
    \/ subroutine_declaration_body
    \/ subroutine_declaration_return
    \/ compile_subroutine_body
    \/ subroutine_body_return
    \/ compile_variable_declaration
    \/ get_children_in_body_with_closing_brace
    \/ compile_statements
    \/ compile_expression
    \/ while_open
    \/ while_condition
    \/ while_blocks
    \/ if_open
    \/ if_condition
    \/ if_blocks
    \/ let_head
    \/ let_loop
    \/ compile_return_statement
    \/ do_head
    \/ do_dot
    \/ do_close
    \/ compile_expression_list
    \/ advance_past_end

SpecParse == InitParse /\ [][NextParse]_vars

\* compile() runs to completion once called: a single thread, nothing to wait for.
FairSpecParse == SpecParse /\ WF_vars(NextParse)

-----------------------------------------------------------------------------
(* The cursor on its own: any caller, any order of calls *)

CursorStreams == Prefixes(EmptyClassTokens)

InitCursor ==
    /\ relays = <<>>
    /\ tokens \in CursorStreams
    /\ cursor = 0
    /\ TokenizerIdle
    /\ status = "cursor"
    /\ error = ""
    /\ stack = <<>>
    /\ result = NoUnit
    /\ units = 0
    /\ ops = <<>>

CanCall == status = "cursor" /\ Len(ops) < MaxOps

QueryOp(name) == [op |-> name, at |-> cursor, tok |-> NoToken]

cursor_reset ==
    /\ CanCall
    /\ cursor' = 0
    /\ ops' = Append(ops, QueryOp("reset"))
    /\ UNCHANGED <<relays, TokenizerVars, stack, status, error, result, units>>

\* past the end there is no token to return: the call fails
cursor_advance ==
    /\ CanCall
    /\ IF has_more
       THEN /\ cursor' = advance_to(cursor)
            /\ ops' = Append(ops, AdvanceOp(cursor))
            /\ UNCHANGED <<status, error>>
       ELSE /\ cursor' = cursor
            /\ ops' = Append(ops, FailedAdvanceOp(cursor))
            /\ status' = "raised"
            /\ error' = "IndexError"
    /\ UNCHANGED <<relays, TokenizerVars, stack, result, units>>

\* retreat() undoes an advance(): there is one to undo
cursor_retreat ==
    /\ CanCall
    /\ cursor > 0
    /\ cursor' = retreat_to(cursor)
    /\ ops' = Append(ops, RetreatOp(cursor))
    /\ UNCHANGED <<relays, TokenizerVars, stack, status, error, result, units>>

cursor_has_more ==
    /\ CanCall
    /\ ops' = Append(ops, QueryOp(IF has_more THEN "has_more: yes" ELSE "has_more: no"))
    /\ UNCHANGED <<relays, TokenizerVars, cursor, stack, status, error, result, units>>

cursor_get_all ==
    /\ CanCall
    /\ ops' = Append(ops, QueryOp("get_all"))
    /\ UNCHANGED <<relays, TokenizerVars, cursor, stack, status, error, result, units>>

NextCursor ==
    \/ cursor_reset
    \/ cursor_advance
    \/ cursor_retreat
    \/ cursor_has_more
    \/ cursor_get_all

SpecCursor == InitCursor /\ [][NextCursor]_vars

-----------------------------------------------------------------------------
(* What a text says, read independently of the tokenizer: its quoted        *)
(* sections and the characters that are neither blank nor a delimiter.      *)

RECURSIVE ScanText(_, _, _, _, _)
ScanText(cs, open, cur, sections, kept) ==
    IF cs = <<>> THEN [open |-> open, sections |-> sections, kept |-> kept]
    ELSE LET c == Head(cs) IN
         IF open # None
         THEN IF c = open
              THEN ScanText(Tail(cs), None, <<>>, Append(sections, cur), kept)
              ELSE ScanText(Tail(cs), open, Append(cur, c), sections, Append(kept, c))
         ELSE IF c \in override
              THEN ScanText(Tail(cs), c, <<>>, sections, kept)
              ELSE IF c \in {" ", "\n"}
                   THEN ScanText(Tail(cs), None, <<>>, sections, kept)
                   ELSE ScanText(Tail(cs), None, <<>>, sections, Append(kept, c))

Scan(src) == ScanText(src, None, <<>>, <<>>, <<>>)

RECURSIVE ConcatContents(_)
ConcatContents(toks) ==
    IF toks = <<>> THEN "" ELSE Head(toks).content \o ConcatContents(Tail(toks))

RECURSIVE JoinEach(_)
JoinEach(css) == IF css = <<>> THEN <<>> ELSE <<Join(Head(css))>> \o JoinEach(Tail(css))

RECURSIVE ContentsOfType(_, _)
ContentsOfType(toks, type) ==
    IF toks = <<>> THEN <<>>
    ELSE (IF Head(toks).type = type THEN <<Head(toks).content>> ELSE <<>>)
         \o ContentsOfType(Tail(toks), type)

\* Every quote of the text is closed: the text is made of whole lexemes.
QuotesClosed(src) == Scan(src).open = None

-----------------------------------------------------------------------------
(* Claims about the tokenizer, under SpecTok *)

\* C1: for a text of whole lexemes, the contents of the returned tokens,
\* concatenated in order, are the text without its blanks and quote
\* delimiters: no character is lost, also when the text ends in a keyword,
\* identifier or integer.
C1_NoCharacterLost ==
    (status = "tokenized" /\ QuotesClosed(text))
        => ConcatContents(tokens) = Join(Scan(text).kept)

\* An all-digit literal, alone or followed by one splitter.
IsLiteralText(src) ==
    /\ src # <<>>
    /\ src[1] \in Digits
    /\ \A i \in 1..(Len(src) - 1) : src[i] \in Digits
    /\ src[Len(src)] \in Digits \cup {";", " "}

LiteralOf(src) == SelectSeq(src, LAMBDA c : c \in Digits)

\* C2: a text holding the integer literal n tokenizes to an IntegerConstant
\* of that literal when n <= 32767 and raises when n > 32767 ("32767" gives
\* one IntegerConstant, "32768" raises).
C2_IntegerBoundary ==
    (status \in {"tokenized", "raised"} /\ IsLiteralText(text))
        => IF PyInt(LiteralOf(text)) <= MAX_INT
           THEN /\ status = "tokenized"
                /\ ContentsOfType(tokens, INT_CONST) = <<Join(LiteralOf(text))>>
           ELSE status = "raised"

\* C6: the StringConstant tokens are exactly the quoted sections of the
\* text, one token per section in order, each holding the characters strictly
\* between its quotes and nothing that came before the opening quote.
C6_QuotedSections ==
    (status = "tokenized" /\ QuotesClosed(text))
        => ContentsOfType(tokens, STRING_CONST) = JoinEach(Scan(text).sections)

\* the text with every newline outside a quoted section replaced by a space
RECURSIVE NewlinesAsSpaces(_, _)
NewlinesAsSpaces(cs, open) ==
    IF cs = <<>> THEN <<>>
    ELSE LET c == Head(cs) IN
         IF open # None
         THEN <<c>> \o NewlinesAsSpaces(Tail(cs), IF c = open THEN None ELSE open)
         ELSE IF c \in {"\"", "'"}
         THEN <<c>> \o NewlinesAsSpaces(Tail(cs), c)
         ELSE <<IF c = "\n" THEN " " ELSE c>> \o NewlinesAsSpaces(Tail(cs), None)

\* C12: a newline outside a quoted section is whitespace: the tokenizer
\* gives for a text what it gives for the same text with each such newline
\* replaced by a space (the text `let`, newline, `x;` gives Keyword let,
\* Identifier x, Symbol ;).
C12_NewlineIsWhitespace ==
    status \in {"tokenized", "raised"}
        => LET spaced == JackTokenize(NewlinesAsSpaces(text, None)) IN
           /\ (status = "raised") = spaced.raised
           /\ status = "tokenized" => tokens = spaced.tokens

-----------------------------------------------------------------------------
(* Claims about the parser, under SpecParse and FairSpecParse *)

Finished == status \in {"returned", "raised"}

\* the four tokens `class`, an identifier, `{`, `}`
IsEmptyClass(toks) ==
    /\ Len(toks) = 4
    /\ toks[1] = K("class")
    /\ toks[2].type = IDENTIFIER
    /\ toks[3] = S("{")
    /\ toks[4] = S("}")

\* C3: parsing the four-token stream `class Foo { }` succeeds and returns a
\* Class node whose children are exactly those four tokens.
C3_EmptyClassParses ==
    IsEmptyClass(tokens)
        => /\ status # "raised"
           /\ status = "returned" => result = Unit(Class, tokens)

ReturnClassTree ==
    Unit(Class,
      <<K("class"), I("Foo"), S("{"),
        Unit(SubroutineDeclaration,
          <<K("function"), K("void"), I("bar"), S("("),
            Unit(ParameterList, <<>>),
            S(")"),
            Unit(SubroutineBody,
              <<S("{"),
                Unit(Statements,
                  <<Unit(ReturnStatement, <<K("return"), S(";")>>)>>),
                S("}")>>)>>),
        S("}")>>)

\* C4: parsing "class Foo { function void bar() { return; } }" does not
\* raise and returns the Class node with one SubroutineDeclaration: function,
\* void, bar, `(`, an empty ParameterList, `)`, and a SubroutineBody of `{`,
\* one Statements node holding one ReturnStatement of `return` and `;`, `}`.
C4_ReturnClassTree ==
    tokens = ReturnClassTokens
        => /\ status # "raised"
           /\ status = "returned" => result = ReturnClassTree

C4_Witness ==
    /\ tokens = ReturnClassTokens
    /\ status = "returned"
    /\ result.children[4].children[7].children[2].children[1].type = ReturnStatement

\* the stream begins with the keyword class, an identifier and the symbol {
BeginsWithClassHeader(toks) ==
    /\ Len(toks) >= 3
    /\ toks[1] = K("class")
    /\ toks[2].type = IDENTIFIER
    /\ toks[3] = S("{")

\* C5: for a stream that is empty or does not begin with `class`, an
\* identifier and `{`, no Unit is ever constructed and no tree is returned.
C5_FatalBeforeAnyUnit ==
    ~BeginsWithClassHeader(tokens)
        => /\ status # "returned"
           /\ units = 0
           /\ result = NoUnit

\* the `}` tokens among the children a Class node gathers after its header
ClassLevelBraces(children) ==
    {i \in 4..Len(children) :
        IsToken(children[i]) /\ children[i].content = "}"}

ClassChildren ==
    IF status = "returned" THEN result.children
    ELSE IF status = "running" THEN stack[1].children
    ELSE <<>>

\* C7: once the class-level loop has taken a `}` as a child no token is left
\* (with tokens left it raises instead), so a returned Class node has its
\* closing `}` as last child, that `}` is the last token of the stream, and
\* the cursor is at the end of the stream.
C7_NothingAfterClosingBrace ==
    /\ \A i \in ClassLevelBraces(ClassChildren) :
          /\ i = Len(ClassChildren)
          /\ cursor = Len(tokens)
          /\ ClassChildren[i] = tokens[Len(tokens)]
    /\ status = "returned" => cursor = Len(tokens)

\* a class-level `}` was followed by another token and compile raised
C7_Witness ==
    /\ status = "raised"
    /\ error = "TrailingToken"
    /\ tokens[cursor - 1].content = "}"

\* C8: compile() terminates on every stream: it returns or raises, and on
\* the way makes at most seven cursor calls per token (each token is read
\* once and put back at most three times) and one failing call.
C8_Terminates ==
    /\ <>Finished
    /\ [](Len(ops) <= 7 * Len(tokens) + 1)

\* a run that went through the loops of a body, of statements and of an
\* expression and came to its end
C8_Witness ==
    /\ status = "returned"
    /\ \E i, j \in 1..Len(ops) :
          i < j /\ ops[i].op = "retreat" /\ ops[j].op = "retreat"
               /\ ops[i].at = ops[j].at

\* C9: while compile() runs the cursor stays within [0, length] and
\* advance() is never called with no token left.
C9_NoAdvancePastEnd ==
    /\ cursor \in 0..Len(tokens)
    /\ \A i \in 1..Len(ops) :
          ops[i].op = "advance" => ops[i].at < Len(tokens)

-----------------------------------------------------------------------------
(* Claim about the cursor, under SpecCursor *)

\* the position the i-th call left the cursor at
PositionAfter(i) == IF i < Len(ops) THEN ops[i + 1].at ELSE cursor

AdvanceThenRetreat(i) ==
    /\ i + 1 <= Len(ops)
    /\ ops[i].op = "advance" /\ ops[i].tok # NoToken
    /\ ops[i + 1].op = "retreat"

\* C10: an advance() from a position p < length followed at once by a
\* retreat() leaves the cursor at p, and an advance() made next returns the
\* token the first one returned; no call changes the token sequence.
C10_CursorSymmetry ==
    /\ [](\A i \in 1..Len(ops) :
            AdvanceThenRetreat(i)
                => /\ PositionAfter(i + 1) = ops[i].at
                   /\ (i + 2 <= Len(ops) /\ ops[i + 2].op = "advance")
                         => ops[i + 2].tok = ops[i].tok)
    /\ [][tokens' = tokens]_vars

C10_Witness ==
    \E i \in 1..Len(ops) :
        /\ AdvanceThenRetreat(i)
        /\ i + 2 <= Len(ops)
        /\ ops[i + 2].op = "advance"
        /\ ops[i + 2].tok = ops[i].tok
        /\ ops[i].at > 0

-----------------------------------------------------------------------------
(* Claims about the shape of the tree, under SpecParse *)

\* every Unit of the tree x, x included
RECURSIVE UnitsOf(_)
UnitsOf(x) ==
    IF IsUnit(x)
    THEN {x} \cup UNION {UnitsOf(x.children[i]) : i \in DOMAIN x.children}
    ELSE {}

\* every Unit a production has handed to its caller so far
Built ==
    UnitsOf(result)
        \cup UNION {UnitsOf(Unit(Class, stack[i].children)) \ {Unit(Class, stack[i].children)} :
                      i \in DOMAIN stack}

BuiltOfType(type) == {u \in Built : u.type = type}

\* `class`, an identifier, `{`, declarations, `}`
IsClassForm(children) ==
    LET n == Len(children) IN
    /\ n >= 4
    /\ children[1] = K("class")
    /\ children[2].type = IDENTIFIER
    /\ children[3] = S("{")
    /\ \A i \in 4..(n - 1) :
          children[i].type \in {ClassVariableDeclaration, SubroutineDeclaration}
    /\ children[n] = S("}")

\* C11: a Class node returned by compile is `class`, an identifier, `{`,
\* class-variable and subroutine declarations, `}`, its last child being the
\* closing `}`; a stream that ends without that brace returns no tree.
C11_ClassForm ==
    status = "returned"
        => /\ result.type = Class
           /\ IsClassForm(result.children)
           /\ tokens[Len(tokens)].content = "}"

\* the places of the children that are tokens of the given content
TokensAt(children, content) ==
    {i \in DOMAIN children : IsToken(children[i]) /\ children[i].content = content}

\* at most one `else`, standing after a `}` and before one last block
IsIfForm(children) ==
    LET n == Len(children)
        elses == TokensAt(children, "else")
    IN  /\ Cardinality(elses) <= 1
        /\ \A i \in elses :
              /\ i > 1 /\ children[i - 1] = S("}")
              /\ i + 3 = n
              /\ children[i + 1] = S("{")
              /\ children[i + 2].type = Statements
              /\ children[i + 3] = S("}")
        /\ Cardinality(TokensAt(children, "{")) <= 1 + Cardinality(elses)

\* C13: an IfStatement node holds at most one `else`, which comes after the
\* closing `}` of the if-body and is followed by exactly one `{` Statements
\* `}` block; there is no second `else`, no `else` without a body before it
\* and no further brace block.
C13_IfForm ==
    \A u \in BuiltOfType(IfStatement) : IsIfForm(u.children)

\* `while`, `(`, one Expression, `)`, `{`, one Statements, `}`
IsWhileForm(children) ==
    /\ Len(children) = 7
    /\ children[1] = K("while")
    /\ children[2] = S("(")
    /\ children[3].type = Expression
    /\ children[4] = S(")")
    /\ children[5] = S("{")
    /\ children[6].type = Statements
    /\ children[7] = S("}")

\* C14: a WhileStatement node is `while`, `(`, one Expression, `)`, `{`, one
\* Statements node, `}`: exactly one body follows the condition.
C14_WhileForm ==
    \A u \in BuiltOfType(WhileStatement) : IsWhileForm(u.children)

\* the terminal tokens of a tree, left to right
RECURSIVE Terminals(_), TerminalsOfAll(_)
Terminals(x) == IF IsUnit(x) THEN TerminalsOfAll(x.children) ELSE <<x>>

TerminalsOfAll(xs) ==
    IF xs = <<>> THEN <<>> ELSE Terminals(Head(xs)) \o TerminalsOfAll(Tail(xs))

\* the tokens just before position c, as many as the tree x has terminals
ReadJustBefore(x, c) ==
    LET n == Len(Terminals(x)) IN
    /\ n <= c
    /\ Terminals(x) = SubSeq(tokens, c - n + 1, c)

\* the five keywords that start a statement
IsStatementLeader(token) ==
    token.type = KEYWORD /\ token.content \in {"return", "let", "do", "if", "while"}

StatementTypes ==
    {ReturnStatement, LetStatement, DoStatement, IfStatement, WhileStatement}

\* this step, the running production hands a node to its caller
Returns ==
    /\ status = "running" /\ status' = "running"
    /\ Len(stack') = Len(stack) - 1

\* the node handed over by a step that appends it to the caller's children
Returned ==
    LET caller == stack'[Len(stack')]
    IN  caller.children[Len(caller.children)]

\* C15: _compile_statements raises the unsupported-statement error at the
\* first statement-leading token that is none of return, let, do, if, while,
\* `}`, and raises nothing else itself; it returns at the symbol `}` only,
\* and then hands over a Statements node whose children are only return,
\* let, do, if and while statements, in the order of the tokens they were
\* read from, with the cursor left on that `}` (the next token advance()
\* returns).
C15_StatementsOrFatal ==
    [][At("statements", "loop")
          => /\ status' = "raised" => error' = "NotImplemented"
             /\ has_more
                  => LET lead == tokens[cursor + 1] IN
                     /\ (status' = "raised")
                           = (~IsStatementLeader(lead) /\ lead # S("}"))
                     /\ Returns = (lead = S("}"))
             /\ Returns
                  => /\ Returned.type = Statements
                     /\ \A i \in DOMAIN Returned.children :
                           Returned.children[i].type \in StatementTypes
                     /\ ReadJustBefore(Returned, cursor')
                     /\ cursor' < Len(tokens)
                     /\ tokens[cursor' + 1] = S("}")]_vars

\* `{`, variable declarations, one Statements node, `}`
IsBodyForm(children) ==
    LET n == Len(children) IN
    /\ n >= 3
    /\ IsToken(children[1]) /\ children[1].content = "{"
    /\ \A i \in 2..(n - 2) : children[i].type = VariableDeclaration
    /\ children[n - 1].type = Statements
    /\ IsToken(children[n]) /\ children[n].content = "}"

\* C16: a SubroutineBody node is `{`, then variable declarations, then
\* exactly one Statements node, then `}`: the declarations come before the
\* statements, and the shared body routine gives one Statements node and the
\* closing brace, also for an empty body.
C16_BodyForm ==
    \A u \in BuiltOfType(SubroutineBody) : IsBodyForm(u.children)

\* `let`, an identifier, `=`, one Expression, `;`
IsLetForm(children) ==
    /\ Len(children) = 5
    /\ children[1] = K("let")
    /\ children[2].type = IDENTIFIER
    /\ children[3] = S("=")
    /\ children[4].type = Expression
    /\ children[5] = S(";")

\* C17: a LetStatement node has exactly five children: the keyword `let`, an
\* Identifier token, the symbol `=`, one Expression node and the symbol `;`;
\* a let statement without an expression, or whose second and third tokens
\* are not an identifier and `=`, is not returned as a LetStatement.
C17_LetForm ==
    \A u \in BuiltOfType(LetStatement) : IsLetForm(u.children)

\* a Term wrapping one token that is no symbol
IsTermOfOne(x) ==
    /\ x.type = Term
    /\ Len(x.children) = 1
    /\ IsToken(x.children[1]) /\ x.children[1].type # SYMBOL

\* Terms and raw Symbol tokens, never two of a kind side by side
Alternates(children) ==
    /\ \A i \in DOMAIN children :
          IsTermOfOne(children[i]) \/ children[i].type = SYMBOL
    /\ \A i \in 1..(Len(children) - 1) :
          (children[i].type = Term) # (children[i + 1].type = Term)

\* C18: an Expression node is a flat sequence in which Term nodes, each
\* wrapping one non-symbol token, and raw Symbol tokens strictly alternate;
\* the expression stops at the first token whose content is one of the
\* caller's end symbols, which is no child of the node and stays unconsumed
\* (it is the next token advance() returns).
C18_ExpressionForm ==
    /\ [](\A u \in BuiltOfType(Expression) : Alternates(u.children))
    /\ [][(At("expression", "loop") /\ Returns)
            => /\ Returned.type = Expression
               /\ \A t \in {Terminals(Returned)[i] : i \in DOMAIN Terminals(Returned)} :
                     t.content \notin Top.ends
               /\ ReadJustBefore(Returned, cursor')
               /\ cursor' < Len(tokens)
               /\ tokens[cursor' + 1].content \in Top.ends]_vars

\* C20: when compile returns a tree, the terminal tokens of the tree read
\* left to right are exactly the token stream, each token once and in
\* source order: no token is skipped or duplicated, also at class level.
C20_TokenConservation ==
    status = "returned" => Terminals(result) = tokens

\* the i-th cursor call is a retreat()
IsRetreat(i) == ops[i].op = "retreat"

\* C21: in every run of compile each retreat() comes right after an
\* advance() that returned a token, with no cursor call in between (never
\* two retreats in a row, never a retreat at position 0), so the cursor goes
\* back by one token only, and the next cursor call is an advance() that
\* returns the token put back.
C21_OneTokenLookahead ==
    \A i \in 1..Len(ops) :
        IsRetreat(i)
            => /\ i > 1
               /\ ops[i - 1].op = "advance" /\ ops[i - 1].tok # NoToken
               /\ ops[i].at = ops[i - 1].at + 1
               /\ ops[i].at > 0
               /\ i < Len(ops)
                    => /\ ops[i + 1].op = "advance"
                       /\ ops[i + 1].at = ops[i - 1].at
                       /\ ops[i + 1].tok = ops[i - 1].tok

\* a token was put back twice and read three times, and compile returned
C21_Witness ==
    /\ status = "returned"
    /\ \E i \in 2..(Len(ops) - 3) :
          /\ IsRetreat(i) /\ IsRetreat(i + 2)
          /\ ops[i + 3].op = "advance"
          /\ ops[i + 3].tok = ops[i - 1].tok

IsStringConstant(x) == x.type = STRING_CONST

\* the nodes whose production is selected by their first token
SelectedByFirst ==
    StatementTypes
        \cup {ClassVariableDeclaration, SubroutineDeclaration, VariableDeclaration}

\* the nodes that end with the token that terminated them
EndedByLast ==
    {LetStatement, ReturnStatement, DoStatement, VariableDeclaration,
     ClassVariableDeclaration, SubroutineBody}

\* the productions that read on until a delimiter
ReadsToDelimiter ==
    \/ At("expression", "loop")
    \/ At("expression_list", "loop")
    \/ At("subroutine_declaration", "params")

\* C22: only Symbol and Keyword tokens steer the parser. A StringConstant
\* whose content reads like a delimiter or a keyword selects no production
\* (no declaration or statement node begins with one) and ends no
\* statement, declaration or body (none ends with one); a production that
\* reads up to a delimiter does not stop at one, and an expression wraps it
\* in a Term.
C22_StringsDoNotSteer ==
    /\ [](\A u \in Built :
            /\ u.type \in SelectedByFirst => ~IsStringConstant(u.children[1])
            /\ u.type \in EndedByLast => ~IsStringConstant(u.children[Len(u.children)]))
    /\ [][(ReadsToDelimiter /\ has_more /\ IsStringConstant(tokens[cursor + 1]))
            => /\ status' = "running"
               /\ Len(stack') >= Len(stack)
               /\ stack'[Len(stack)].pc = Top.pc
               /\ At("expression", "loop")
                    => stack' = WithTop([Top EXCEPT !.children =
                                   Append(@, Unit(Term, <<tokens[cursor + 1]>>))])]_vars

-----------------------------------------------------------------------------
(* CompilationEngine.unit_as_xml: a tree rendered as text *)

\* The text is a sequence of pieces: every space and every newline is a
\* piece of its own, a tag name or a token's content is one piece.

token_xml_mapping(type) ==
    CASE type = INT_CONST -> "integerConstant"
      [] type = SYMBOL -> "symbol"
      [] type = STRING_CONST -> "stringConstant"
      [] type = KEYWORD -> "keyword"
      [] type = IDENTIFIER -> "identifier"

unit_xml_mapping(type) ==
    CASE type = SubroutineDeclaration -> "subroutineDec"
      [] type = SubroutineBody -> "subroutineBody"
      [] type = VariableDeclaration -> "varDec"
      [] type = Statements -> "statements"
      [] type = LetStatement -> "letStatement"
      [] type = DoStatement -> "doStatement"
      [] type = ClassVariableDeclaration -> "classVarDec"
      [] type = ReturnStatement -> "returnStatement"
      [] type = ParameterList -> "parameterList"
      [] type = IfStatement -> "ifStatement"
      [] type = WhileStatement -> "whileStatement"
      [] type = Expression -> "expression"
      [] type = Class -> "class"
      [] type = Term -> "term"
      [] type = ExpressionList -> "expressionList"

\* ' ' * level
Spaces(level) == [i \in 1..level |-> " "]

\* xml_helpers.formulate_line: one tagged line carrying the token's text,
\* "<tag> content </tag>"
formulate_line(xml_tag_text, content) ==
    <<"<", xml_tag_text, ">", " ", content, " ", "</", xml_tag_text, ">">>

\* (variant: the children are rendered at their parent's level)
SameLevel(level) == level

\* lines 489 and 492: the level the children of a unit are rendered at
ChildLevel(level) == level + 2

RECURSIVE unit_as_xml(_, _), children_as_xml(_, _)
\* lines 484-486 and 495-496
unit_as_xml(unit, level) ==
    LET xml_tag_text == unit_xml_mapping(unit.type) IN
    Spaces(level) \o <<"<", xml_tag_text, ">", "\n">>
        \o children_as_xml(unit.children, level)
        \o Spaces(level) \o <<"</", xml_tag_text, ">", "\n">>

\* lines 487-494: `for child in unit.children` (a child is a Unit or a Token
\* in every tree built here; line 494 raises for anything else)
children_as_xml(children, level) ==
    IF children = <<>> THEN <<>>
    ELSE LET child == Head(children) IN
         (IF IsUnit(child)
          THEN unit_as_xml(child, ChildLevel(level))
          ELSE Spaces(ChildLevel(level))
                 \o formulate_line(token_xml_mapping(child.type), child.content)
                 \o <<"\n">>)
         \o children_as_xml(Tail(children), level)

-----------------------------------------------------------------------------
(* The trees unit_as_xml is called on *)

MaxWidth == 2
MaxNest == 4
MaxCalls == 2

RenderTokens == {K("return"), S(";")}

RenderTypes == {Statements, ReturnStatement}

\* units of up to MaxWidth symbols
FlatUnits == {Unit(t, cs) : t \in RenderTypes, cs \in SeqsUpTo({S(";")}, MaxWidth)}

\* units of up to MaxWidth tokens and flat units
NestedUnits ==
    {Unit(t, cs) : t \in RenderTypes,
                   cs \in SeqsUpTo(RenderTokens \cup FlatUnits, MaxWidth)}

\* a token wrapped n times: Term, Expression, Term, ...
RECURSIVE Wrapped(_, _)
Wrapped(x, n) ==
    IF n = 0 THEN x
    ELSE Unit(IF n % 2 = 1 THEN Term ELSE Expression, <<Wrapped(x, n - 1), S(";")>>)

WrappedUnits == {Wrapped(I("Foo"), n) : n \in 1..MaxNest}

\* every kind of unit holding every kind of token
EachKind ==
    {Unit(t, <<k, Unit(t, <<>>)>>) :
        t \in WrapperType,
        k \in {K("class"), S("{"), I("Foo"), N("1"), Str("a b")}}

RenderInputs == FlatUnits \cup NestedUnits \cup WrappedUnits \cup EachKind

\* A tree at hand, nothing rendered yet.
InitXml ==
    /\ relays = <<>>
    /\ result \in RenderInputs
    /\ text = <<>>
    /\ status = "unit"
    /\ units = 0
    /\ tokens = <<>> /\ pos = 1 /\ collector = <<>> /\ overriding_with = None
    /\ cursor = 0 /\ stack = <<>> /\ error = "" /\ ops = <<>>

\* compile_as_xml, line 147: unit_as_xml(unit) with level = 0, called any
\* number of times on the same tree (units counts the calls here)
unit_as_xml_call ==
    /\ status \in {"unit", "rendered"}
    /\ units < MaxCalls
    /\ text' = unit_as_xml(result, 0)
    /\ status' = "rendered"
    /\ units' = units + 1
    /\ UNCHANGED <<relays, result, tokens, pos, collector, overriding_with, cursor,
                   stack, error, ops>>

NextXml == unit_as_xml_call

SpecXml == InitXml /\ [][NextXml]_vars

-----------------------------------------------------------------------------
(* Claim about the rendering, under SpecXml *)

\* where the newlines of a text are
Newlines(cs) == {i \in DOMAIN cs : cs[i] = "\n"}

\* the lines of a text, each without the newline that ends it
SplitLines(cs) ==
    LET ends == Newlines(cs)
        before(i) == {j \in ends : j < i}
        start(i) == IF before(i) = {} THEN 1
                    ELSE (CHOOSE j \in before(i) : \A k \in before(i) : k <= j) + 1
    IN  [n \in 1..Cardinality(ends) |->
            LET i == CHOOSE e \in ends : Cardinality(before(e)) = n - 1
            IN  SubSeq(cs, start(i), i - 1)]

\* the number of spaces a line begins with
Indentation(line) ==
    IF \A i \in DOMAIN line : line[i] = " " THEN Len(line)
    ELSE (CHOOSE i \in DOMAIN line :
             line[i] # " " /\ \A j \in 1..(i - 1) : line[j] = " ") - 1

\* what a line reads as: its indentation and the tag it opens, closes, or
\* puts around a token's text
ReadLine(line) ==
    LET n == Indentation(line)
        rest == SubSeq(line, n + 1, Len(line))
    IN  IF Len(rest) = 3 /\ rest[1] = "<" /\ rest[3] = ">"
        THEN [indent |-> n, kind |-> "open", tag |-> rest[2], content |-> ""]
        ELSE IF Len(rest) = 3 /\ rest[1] = "</" /\ rest[3] = ">"
        THEN [indent |-> n, kind |-> "close", tag |-> rest[2], content |-> ""]
        ELSE IF /\ Len(rest) = 9
                /\ rest[1] = "<" /\ rest[3] = ">" /\ rest[4] = " " /\ rest[6] = " "
                /\ rest[7] = "</" /\ rest[8] = rest[2] /\ rest[9] = ">"
        THEN [indent |-> n, kind |-> "token", tag |-> rest[2], content |-> rest[5]]
        ELSE [indent |-> n, kind |-> "other", tag |-> "", content |-> ""]

ReadLines(cs) ==
    LET lines == SplitLines(cs) IN [i \in DOMAIN lines |-> ReadLine(lines[i])]

\* the lines a tree asks for, x being at depth d: two per node around those
\* of its children, one per token
RECURSIVE Outline(_, _), OutlineOfAll(_, _)
Outline(x, d) ==
    IF IsUnit(x)
    THEN <<[indent |-> 2 * d, kind |-> "open", tag |-> unit_xml_mapping(x.type),
            content |-> ""]>>
         \o OutlineOfAll(x.children, d + 1)
         \o <<[indent |-> 2 * d, kind |-> "close", tag |-> unit_xml_mapping(x.type),
               content |-> ""]>>
    ELSE <<[indent |-> 2 * d, kind |-> "token", tag |-> token_xml_mapping(x.type),
            content |-> x.content]>>

OutlineOfAll(xs, d) ==
    IF xs = <<>> THEN <<>> ELSE Outline(Head(xs), d) \o OutlineOfAll(Tail(xs), d)

\* C19: the text unit_as_xml gives reads, line by line, as an opening and a
\* closing tag line of its mapped tag name for every node, indented 2*d
\* spaces at depth d, with the lines of its children between them in child
\* order, a token being one line indented 2*(d+1) spaces under a parent at
\* depth d; every line ends in a newline; a call leaves the tree as it was
\* and a second call on the same tree gives the same text.
C19_XmlLines ==
    /\ [](status = "rendered"
            => /\ text # <<>> /\ text[Len(text)] = "\n"
               /\ ReadLines(text) = Outline(result, 0))
    /\ [][/\ result' = result
          /\ status = "rendered" => text' = text]_vars

\* a tree four deep was rendered twice
C19_Witness ==
    /\ status = "rendered"
    /\ units = 2
    /\ result = Wrapped(I("Foo"), 4)
    /\ \E i \in DOMAIN ReadLines(text) :
          ReadLines(text)[i] = [indent |-> 8, kind |-> "token", tag |-> "identifier",
                                content |-> "Foo"]


-----------------------------------------------------------------------------
\* circuit/relay.py: Relay.
\*
\* A relay is a record of the three fields __init__ stores. A power source is
\* a bool or a callable, a switch is None or a callable; the callables of this
\* program are the output handles of relays (the lambda of the output
\* property), which read the relay's output_state when they are called. A
\* handle must exist before it is passed to a constructor, so a relay is wired
\* only to relays constructed before it.

MaxRelays == 3

Bool(b) == [kind |-> "bool", value |-> b, relay |-> 0]

NoSwitch == [kind |-> "None", value |-> FALSE, relay |-> 0]

\* relay.output: lambda: self.output_state, of the k-th relay constructed
output(k) == [kind |-> "callable", value |-> FALSE, relay |-> k]

Relay(power, switch) ==
    [switch_is_on |-> FALSE, power_source |-> power, switch_handle |-> switch]

\* the truth value of self._switch_handle: None is falsy, a function is truthy
HasSwitchHandle(r) == r.switch_handle.kind # "None"

\* _assert_no_custom_switch raises exactly when this holds
raises_never(rs, i) == FALSE

assert_no_custom_switch_raises(rs, i) == HasSwitchHandle(rs[i])

RECURSIVE output_state(_, _)
RECURSIVE get_switch_state(_, _)
RECURSIVE get_power_source_state(_, _)

get_switch_state_from_flag(rs, i) == rs[i].switch_is_on

get_switch_state(rs, i) ==
    IF HasSwitchHandle(rs[i])
    THEN output_state(rs, rs[i].switch_handle.relay)
    ELSE rs[i].switch_is_on

get_power_source_state(rs, i) ==
    IF rs[i].power_source.kind = "bool"
    THEN rs[i].power_source.value
    ELSE output_state(rs, rs[i].power_source.relay)

output_state(rs, i) == get_switch_state(rs, i) /\ get_power_source_state(rs, i)

\* any(list) of Python, on a list of booleans
RECURSIVE any(_)
any(bs) == IF bs = <<>> THEN FALSE ELSE Head(bs) \/ any(Tail(bs))

has_output(rs, listed) ==
    any([n \in DOMAIN listed |-> output_state(rs, listed[n])])

PowerSources == {Bool(FALSE), Bool(TRUE)} \cup {output(k) : k \in DOMAIN relays}

Switches == {NoSwitch} \cup {output(k) : k \in DOMAIN relays}

InitRelay ==
    /\ relays = <<>>
    /\ TokenizerIdle /\ tokens = <<>>
    /\ ParserIdle
    /\ status = "relays"
    /\ error = ""

RelayFrame ==
    UNCHANGED <<TokenizerVars, cursor, stack, result, units, ops, status>>

Relay_init ==
    /\ status = "relays"
    /\ Len(relays) < MaxRelays
    /\ \E power \in PowerSources, switch \in Switches :
          relays' = Append(relays, Relay(power, switch))
    /\ error' = ""
    /\ RelayFrame

\* What a call of switch_on / switch_off on the i-th relay does to the relays
\* rs: whether it raised, and the relays after it. The assertion comes first,
\* so a call that raises has assigned nothing.
switch_on_call(rs, i) ==
    IF assert_no_custom_switch_raises(rs, i)
    THEN [raised |-> TRUE, relays |-> rs]
    ELSE [raised |-> FALSE, relays |-> [rs EXCEPT ![i].switch_is_on = TRUE]]

switch_off_call(rs, i) ==
    IF assert_no_custom_switch_raises(rs, i)
    THEN [raised |-> TRUE, relays |-> rs]
    ELSE [raised |-> FALSE, relays |-> [rs EXCEPT ![i].switch_is_on = FALSE]]

Outcome(call) == IF call.raised THEN "Exception" ELSE ""

switch_on(i) ==
    /\ status = "relays"
    /\ relays' = switch_on_call(relays, i).relays
    /\ error' = Outcome(switch_on_call(relays, i))
    /\ RelayFrame

switch_off(i) ==
    /\ status = "relays"
    /\ relays' = switch_off_call(relays, i).relays
    /\ error' = Outcome(switch_off_call(relays, i))
    /\ RelayFrame

NextRelay ==
    \/ Relay_init
    \/ \E i \in DOMAIN relays : switch_on(i)
    \/ \E i \in DOMAIN relays : switch_off(i)

SpecRelay == InitRelay /\ [][NextRelay]_vars


-----------------------------------------------------------------------------
(* Claims about the relays, under SpecRelay *)

MaxListed == 2

\* a handle "currently returns true": it is a callable, and the relay whose
\* output it is has a true output_state now
ReturnsTrue(h) == h.kind = "callable" /\ output_state(relays, h.relay)

ListedRelays == SeqsUpTo(DOMAIN relays, MaxListed)

\* C23: after any sequence of constructions and switch_on/switch_off calls,
\* each relay's output_state is (its switch flag is on, or its switch handle
\* currently returns true) and (its power source is True, or its power-source
\* handle currently returns true), a wired relay following the present state
\* of the relay it is wired to; and has_output(listed) is true exactly when
\* some listed relay's output_state is true.
C23_RelayComposition ==
    /\ \A i \in DOMAIN relays :
          output_state(relays, i)
              = (/\ relays[i].switch_is_on \/ ReturnsTrue(relays[i].switch_handle)
                 /\ relays[i].power_source = Bool(TRUE)
                        \/ ReturnsTrue(relays[i].power_source))
    /\ \A listed \in ListedRelays :
          has_output(relays, listed)
              = (\E n \in DOMAIN listed : output_state(relays, listed[n]))

\* the first relay was switched on by hand, the second takes its switch from
\* the first relay's output and the third its power from the second's: all
\* three are on, and has_output sees the third alone
C23_Witness ==
    /\ Len(relays) = 3
    /\ relays[1].switch_is_on /\ relays[1].power_source = Bool(TRUE)
    /\ relays[2].switch_handle = output(1) /\ relays[2].power_source = Bool(TRUE)
    /\ relays[3].power_source = output(2) /\ relays[3].switch_is_on
    /\ output_state(relays, 3)
    /\ has_output(relays, <<3>>)
    /\ ~has_output([relays EXCEPT ![1].switch_is_on = FALSE], <<3>>)


\* the claim's two kinds of relay, by how the relay was constructed
WithCustomSwitch == {i \in DOMAIN relays : relays[i].switch_handle # NoSwitch}

WithoutCustomSwitch == {i \in DOMAIN relays : relays[i].switch_handle = NoSwitch}

OutputStates(rs) == [i \in DOMAIN rs |-> output_state(rs, i)]

\* the step raised and left the relay's flag and every output_state as it was
RaisedWithoutEffect(i) ==
    /\ error' = "Exception"
    /\ relays'[i].switch_is_on = relays[i].switch_is_on
    /\ OutputStates(relays') = OutputStates(relays)

\* the step did not raise, the flag is `on` whatever it was before and nothing
\* else of any relay has changed, and the same call made again would neither
\* raise nor change anything
SwitchedTo(i, on, again) ==
    /\ error' = ""
    /\ relays'[i].switch_is_on = on
    /\ relays' = [relays EXCEPT ![i].switch_is_on = on]
    /\ ~again.raised
    /\ again.relays = relays'

\* C24: switch_on and switch_off on a relay constructed with a custom switch
\* handle always raise and leave its stored switch flag (which stays off) and
\* its output_state unchanged; on a relay without a custom switch handle they
\* never raise, are idempotent, and the last call alone determines the flag.
C24_SwitchCalls ==
    /\ [](\A i \in WithCustomSwitch : ~relays[i].switch_is_on)
    /\ [][/\ \A i \in WithCustomSwitch :
                (switch_on(i) \/ switch_off(i)) => RaisedWithoutEffect(i)
          /\ \A i \in WithoutCustomSwitch :
                /\ switch_on(i) => SwitchedTo(i, TRUE, switch_on_call(relays', i))
                /\ switch_off(i) => SwitchedTo(i, FALSE, switch_off_call(relays', i))
          /\ \A i \in WithoutCustomSwitch :
                /\ switch_off_call(switch_on_call(relays, i).relays, i).relays
                       = switch_off_call(relays, i).relays
                /\ switch_on_call(switch_off_call(relays, i).relays, i).relays
                       = switch_on_call(relays, i).relays]_vars

\* a call on the second relay, which has a custom switch, has just raised,
\* after the first relay, which has none, was switched on and feeds it
C24_Witness ==
    /\ Len(relays) >= 2
    /\ 1 \in WithoutCustomSwitch /\ relays[1].switch_is_on
    /\ 2 \in WithCustomSwitch /\ relays[2].switch_handle = output(1)
    /\ error = "Exception"
    /\ output_state(relays, 2)

====
